---------------------------- MODULE Spec2Model ----------------------------
(***************************************************************************)
(* The scanner of rust/src/lexer/lexer.rs: a byte cursor over an owned     *)
(* buffer, driven by repeated next_token calls.                            *)
(*                                                                         *)
(* Bytes are the integers 0..255, a Rust String is the sequence of its     *)
(* Unicode scalar values, and a Vec<u8> is a sequence of bytes.  Sequences *)
(* are 1-based here and 0-based in the source: the byte the source calls   *)
(* input[i] is input[i + 1] below.                                         *)
(***************************************************************************)
EXTENDS Integers, Sequences, FiniteSets, TLC

VARIABLES input, position, read_position, ch, out, panicked

vars == <<input, position, read_position, ch, out, panicked>>

---------------------------------------------------------------------------
(* Byte literals and the byte classes of core::ascii.                      *)

Printable ==
    << " ", "!", "dquote", "#", "$", "%", "&", "'", "(", ")", "*", "+", ",", "-", ".", "/",
       "0", "1", "2", "3", "4", "5", "6", "7", "8", "9", ":", ";", "<", "=", ">", "?",
       "@", "A", "B", "C", "D", "E", "F", "G", "H", "I", "J", "K", "L", "M", "N", "O",
       "P", "Q", "R", "S", "T", "U", "V", "W", "X", "Y", "Z", "[", "backslash", "]", "^", "_",
       "backtick", "a", "b", "c", "d", "e", "f", "g", "h", "i", "j", "k", "l", "m", "n", "o",
       "p", "q", "r", "s", "t", "u", "v", "w", "x", "y", "z", "{", "|", "}", "~" >>

AsciiOf ==
    [c \in {Printable[i] : i \in 1..Len(Printable)} |->
        31 + (CHOOSE i \in 1..Len(Printable) : Printable[i] = c)]

\* The byte literal b'c', for the printable characters that TLA+ strings hold
\* unescaped.
b(c) == AsciiOf[c]

\* A string literal "...", given as the tuple of its characters.
lit(chars) == [i \in 1..Len(chars) |-> b(chars[i])]

HT == 9
LF == 10
FF == 12
CR == 13
SP == 32

\* u8::is_ascii_whitespace: space, tab, line feed, form feed, carriage return.
is_ascii_whitespace(c) == c \in {SP, HT, LF, FF, CR}

is_ascii_digit(c) == b("0") <= c /\ c <= b("9")

is_ascii_alphabetic(c) ==
    \/ b("a") <= c /\ c <= b("z")
    \/ b("A") <= c /\ c <= b("Z")

is_ascii_alphanumeric(c) == is_ascii_alphabetic(c) \/ is_ascii_digit(c)

---------------------------------------------------------------------------
(* String <-> bytes.  Scalar values below 0x80 are one byte; those below   *)
(* 0x800 are two bytes (110xxxxx 10xxxxxx).  Larger scalar values do not   *)
(* occur in the inputs drawn below.                                        *)

REPLACEMENT_CHARACTER == 65533

RECURSIVE into_bytes(_)
into_bytes(s) ==
    IF s = <<>> THEN <<>>
    ELSE LET c == Head(s) IN
         (IF c < 128 THEN <<c>> ELSE <<192 + (c \div 64), 128 + (c % 64)>>)
            \o into_bytes(Tail(s))

\* String::from_utf8_lossy(bytes).to_string(): well-formed sequences decode,
\* every byte that starts no well-formed sequence becomes U+FFFD.
RECURSIVE from_utf8_lossy(_)
from_utf8_lossy(bytes) ==
    IF bytes = <<>> THEN <<>>
    ELSE LET c == Head(bytes) IN
         IF c < 128 THEN <<c>> \o from_utf8_lossy(Tail(bytes))
         ELSE IF /\ 194 <= c /\ c <= 223
                 /\ Len(bytes) >= 2
                 /\ 128 <= bytes[2] /\ bytes[2] <= 191
              THEN <<(c - 192) * 64 + (bytes[2] - 128)>>
                       \o from_utf8_lossy(Tail(Tail(bytes)))
              ELSE <<REPLACEMENT_CHARACTER>> \o from_utf8_lossy(Tail(bytes))

\* &input[from..to] (0-based, half open).
slice(bytes, from, to) == SubSeq(bytes, from + 1, to)

---------------------------------------------------------------------------
(* Token: the variant and, for Ident and Int, the carried String.          *)

Tok(kind) == [kind |-> kind, text |-> <<>>]
Token_Ident(text) == [kind |-> "Ident", text |-> text]
Token_Int(text) == [kind |-> "Int", text |-> text]

\* The reserved-word arms of the letter branch, in source order.
KeywordTable ==
    << <<lit(<<"f","n">>), "Function">>,
       <<lit(<<"l","e","t">>), "Let">>,
       <<lit(<<"c","o","n","s","t">>), "Const">>,
       <<lit(<<"s","t","a","t","i","c">>), "Static">>,
       <<lit(<<"m","o","d">>), "Mod">>,
       <<lit(<<"p","u","b">>), "Pub">>,
       <<lit(<<"c","r","a","t","e">>), "Crate">>,
       <<lit(<<"u","s","e">>), "Use">>,
       <<lit(<<"a","s">>), "As">>,
       <<lit(<<"e","x","t","e","r","n">>), "Extern">>,
       <<lit(<<"S","e","l","f">>), "SelfType">>,
       <<lit(<<"s","e","l","f">>), "Self_">>,
       <<lit(<<"f","o","r">>), "For">>,
       <<lit(<<"i","n">>), "In">>,
       <<lit(<<"i","f">>), "If">>,
       <<lit(<<"e","l","s","e">>), "Else">>,
       <<lit(<<"m","a","t","c","h">>), "Match">>,
       <<lit(<<"w","h","i","l","e">>), "While">>,
       <<lit(<<"l","o","o","p">>), "Loop">>,
       <<lit(<<"c","o","n","t","i","n","u","e">>), "Continue">>,
       <<lit(<<"b","r","e","a","k">>), "Break">>,
       <<lit(<<"r","e","t","u","r","n">>), "Return">>,
       <<lit(<<"m","u","t">>), "Mut">>,
       <<lit(<<"i","8">>), "I8">>,
       <<lit(<<"u","8">>), "U8">>,
       <<lit(<<"i","1","6">>), "I16">>,
       <<lit(<<"u","1","6">>), "U16">>,
       <<lit(<<"i","3","2">>), "I32">>,
       <<lit(<<"u","3","2">>), "U32">>,
       <<lit(<<"i","6","4">>), "I64">>,
       <<lit(<<"u","6","4">>), "U64">>,
       <<lit(<<"i","1","2","8">>), "I128">>,
       <<lit(<<"u","1","2","8">>), "U128">>,
       <<lit(<<"i","s","i","z","e">>), "Isize">>,
       <<lit(<<"u","s","i","z","e">>), "Usize">>,
       <<lit(<<"f","3","2">>), "F32">>,
       <<lit(<<"f","6","4">>), "F64">>,
       <<lit(<<"b","o","o","l">>), "Bool">>,
       <<lit(<<"c","h","a","r">>), "Char">>,
       <<lit(<<"s","t","r">>), "Str">>,
       <<lit(<<"t","r","u","e">>), "True">>,
       <<lit(<<"f","a","l","s","e">>), "False">>,
       <<lit(<<"d","e","f","a","u","l","t">>), "Default">>,
       <<lit(<<"t","y","p","e">>), "Type">>,
       <<lit(<<"s","t","r","u","c","t">>), "Struct">>,
       <<lit(<<"e","n","u","m">>), "Enum">>,
       <<lit(<<"t","r","a","i","t">>), "Trait">>,
       <<lit(<<"i","m","p","l">>), "Impl">>,
       <<lit(<<"=",">">>), "Arrow">> >>

\* match_ident with the reserved words matched as prefixes (starts_with) of
\* the identifier instead of against the whole of it.
match_ident_prefix(ident) ==
    LET hit(i) == /\ Len(ident) >= Len(KeywordTable[i][1])
                  /\ SubSeq(ident, 1, Len(KeywordTable[i][1])) = KeywordTable[i][1]
    IN  IF \E i \in 1..Len(KeywordTable) : hit(i)
        THEN Tok(KeywordTable[CHOOSE i \in 1..Len(KeywordTable) :
                     hit(i) /\ \A j \in 1..(i - 1) : ~hit(j)][2])
        ELSE Token_Ident(ident)

\* match ident.as_str() { "fn" => Token::Function, ..., _ => Token::Ident(ident) }
match_ident(ident) ==
    IF \E i \in 1..Len(KeywordTable) : KeywordTable[i][1] = ident
    THEN Tok(KeywordTable[CHOOSE i \in 1..Len(KeywordTable) : KeywordTable[i][1] = ident][2])
    ELSE Token_Ident(ident)

\* match ident.as_str() { "+=" => PlusEqual, _ => Plus }
match_plus(ident) ==
    IF ident = lit(<<"+","=">>) THEN Tok("PlusEqual") ELSE Tok("Plus")

\* match_minus with the two-byte runs matched as prefixes of the run.
match_minus_prefix(ident) ==
    IF Len(ident) >= 2 /\ SubSeq(ident, 1, 2) = lit(<<"-","=">>) THEN Tok("MinusEqual")
    ELSE IF Len(ident) >= 2 /\ SubSeq(ident, 1, 2) = lit(<<"-",">">>) THEN Tok("Arrow")
    ELSE Tok("Minus")

\* match_minus with the tokens of its two arms exchanged.
match_minus_swapped(ident) ==
    IF ident = lit(<<"-","=">>) THEN Tok("Arrow")
    ELSE IF ident = lit(<<"-",">">>) THEN Tok("MinusEqual")
    ELSE Tok("Minus")

\* match ident.as_str() { "-=" => MinusEqual, "->" => Arrow, _ => Minus }
match_minus(ident) ==
    IF ident = lit(<<"-","=">>) THEN Tok("MinusEqual")
    ELSE IF ident = lit(<<"-",">">>) THEN Tok("Arrow")
    ELSE Tok("Minus")

\* match_colon with ":" for "::" in its first arm.
match_colon_single(ident) ==
    IF ident = lit(<<":">>) THEN Tok("DoubleColon") ELSE Tok("Colon")

\* match ident.as_str() { "::" => DoubleColon, _ => Colon }
match_colon(ident) ==
    IF ident = lit(<<":",":">>) THEN Tok("DoubleColon") ELSE Tok("Colon")

\* The four arms of the '.' branch that return a token; every other run
\* reaches todo!().
PeriodTable ==
    << <<lit(<<".">>), "Period">>,
       <<lit(<<".",".">>), "Range">>,
       <<lit(<<".",".","=">>), "RangeInclusive">>,
       <<lit(<<".",".",".">>), "DefaultFields">> >>

---------------------------------------------------------------------------
(* The Lexer: a record of its four fields, and of fault: an index or a      *)
(* slice range outside the buffer has been asked for.  Rust panics there,  *)
(* so a lexer with fault set does nothing more.                            *)

\* self.input[i] read into self.ch.
index(l, i) ==
    IF i < Len(l.input)
    THEN [l EXCEPT !.ch = l.input[i + 1]]
    ELSE [l EXCEPT !.fault = TRUE]

\* The cursor moved on: the last two statements of read_char.
advance(l) ==
    IF l.fault THEN l
    ELSE [l EXCEPT !.position = l.read_position,
                   !.read_position = l.read_position + 1]

\* read_char with > for >= in its test: the byte at input.len() is asked for.
read_char_off_by_one(l) ==
    IF l.fault THEN l
    ELSE IF l.read_position > Len(l.input)
    THEN advance([l EXCEPT !.ch = 0])
    ELSE advance(index(l, l.read_position))

\* read_char with its last two statements in the other order: position is
\* taken from read_position after the increment.
read_char_late_position(l) ==
    LET m == IF l.read_position >= Len(l.input)
             THEN [l EXCEPT !.ch = 0]
             ELSE index(l, l.read_position)
    IN  [m EXCEPT !.position = l.read_position + 1,
                  !.read_position = l.read_position + 1]

\* fn read_char(&mut self)
read_char(l) ==
    IF l.fault THEN l
    ELSE IF l.read_position >= Len(l.input)
    THEN advance([l EXCEPT !.ch = 0])
    ELSE advance(index(l, l.read_position))

\* String::from_utf8_lossy(&self.input[pos..self.position]).to_string(), with
\* the lexer as it is afterwards.
take(m, pos) ==
    IF m.fault THEN [lex |-> m, str |-> <<>>]
    ELSE IF pos <= m.position /\ m.position <= Len(m.input)
    THEN [lex |-> m, str |-> from_utf8_lossy(slice(m.input, pos, m.position))]
    ELSE [lex |-> [m EXCEPT !.fault = TRUE], str |-> <<>>]

\* while cond(self.ch) { self.read_char(); }, for the byte set `bytes`
RECURSIVE read_while_in(_, _)
read_while_in(l, bytes) ==
    IF ~l.fault /\ l.ch \in bytes THEN read_while_in(read_char(l), bytes) ELSE l

\* skip_whitespace with `if` for `while`: one whitespace byte is skipped.
skip_whitespace_once(l) ==
    IF is_ascii_whitespace(l.ch) THEN read_char(l) ELSE l

\* fn skip_whitespace(&mut self)
RECURSIVE skip_whitespace(_)
skip_whitespace(l) ==
    IF ~l.fault /\ is_ascii_whitespace(l.ch) THEN skip_whitespace(read_char(l)) ELSE l

RECURSIVE read_ident_rest(_)
read_ident_rest(l) ==
    IF ~l.fault /\ (is_ascii_alphanumeric(l.ch) \/ l.ch = b("_"))
    THEN read_ident_rest(read_char(l))
    ELSE l

\* read_ident with pos taken after the first byte has been read.
read_ident_late_pos(l) ==
    LET m == IF is_ascii_alphabetic(l.ch) \/ l.ch = b("_")
             THEN read_ident_rest(read_char(l))
             ELSE l
        pos == IF is_ascii_alphabetic(l.ch) \/ l.ch = b("_")
               THEN l.position + 1
               ELSE l.position
    IN  [lex |-> m, str |-> from_utf8_lossy(slice(m.input, pos, m.position))]

\* read_ident followed by one more read_char, as if the branch fell through to
\* the read_char that ends next_token.
read_ident_extra_advance(l) ==
    LET pos == l.position
        m == IF is_ascii_alphabetic(l.ch) \/ l.ch = b("_")
             THEN read_ident_rest(read_char(l))
             ELSE l
    IN  [lex |-> read_char(m),
         str |-> from_utf8_lossy(slice(m.input, pos, m.position))]

\* fn read_ident(&mut self) -> String: the lexer after it and the String.
read_ident(l) ==
    LET pos == l.position
        m == IF is_ascii_alphabetic(l.ch) \/ l.ch = b("_")
             THEN read_ident_rest(read_char(l))
             ELSE l
    IN  take(m, pos)

\* read_match that looks no further than the second byte.
read_match_two(l, match_byte) ==
    LET pos == l.position
        m1 == IF l.ch = match_byte THEN read_char(l) ELSE l
        m == IF l.ch = match_byte /\ m1.ch = match_byte THEN read_char(m1) ELSE m1
    IN  [lex |-> m, str |-> from_utf8_lossy(slice(m.input, pos, m.position))]

\* fn read_match(&mut self, match_byte: u8) -> String
read_match(l, match_byte) ==
    LET pos == l.position
        m == read_while_in(l, {match_byte})
    IN  take(m, pos)

\* read_match_any without its loop: the run is looked at and not consumed.
read_match_any_no_loop(l, match_bytes) ==
    [lex |-> l, str |-> from_utf8_lossy(slice(l.input, l.position, l.position))]

\* fn read_match_any(&mut self, match_bytes: &[u8]) -> String
read_match_any(l, match_bytes) ==
    LET pos == l.position
        m == read_while_in(l, match_bytes)
    IN  take(m, pos)

RECURSIVE read_int_loop(_)
read_int_loop(l) ==
    IF ~l.fault /\ is_ascii_digit(l.ch) THEN read_int_loop(read_char(l)) ELSE l

RECURSIVE trim_leading_zeros(_)
trim_leading_zeros(str) ==
    IF Len(str) > 1 /\ Head(str) = b("0") THEN trim_leading_zeros(Tail(str)) ELSE str

\* read_int with the literal normalised as a number would be: leading zeros
\* are dropped.
read_int_normalised(l) ==
    LET pos == l.position
        m == read_int_loop(l)
    IN  [lex |-> m,
         str |-> trim_leading_zeros(from_utf8_lossy(slice(m.input, pos, m.position)))]

\* fn read_int(&mut self) -> String
read_int(l) ==
    LET pos == l.position
        m == read_int_loop(l)
    IN  take(m, pos)

\* What a call leaves behind: the lexer, and either Ok(tok) or a panic (of
\* todo!(), or of an access outside the buffer before the return).
Returns(l, tok) ==
    IF l.fault THEN [lex |-> l, panic |-> TRUE, tok |-> Tok("out of range")]
    ELSE [lex |-> l, panic |-> FALSE, tok |-> tok]
Todo(l) == [lex |-> l, panic |-> TRUE, tok |-> Tok("todo!")]

\* SingleByte with the tokens of '(' and ')' exchanged.
SingleByte_parens_swapped ==
    << <<b("{"), "LSquirly">>,
       <<b("}"), "RSquirly">>,
       <<b("("), "Rparen">>,
       <<b(")"), "Lparen">>,
       <<b(","), "Comma">>,
       <<b(";"), "Semicolon">>,
       <<b("="), "Equal">>,
       <<0, "Eof">> >>

\* SingleByte with '=' given the variant next to Equal.
SingleByte_equal_equal ==
    << <<b("{"), "LSquirly">>,
       <<b("}"), "RSquirly">>,
       <<b("("), "Lparen">>,
       <<b(")"), "Rparen">>,
       <<b(","), "Comma">>,
       <<b(";"), "Semicolon">>,
       <<b("="), "EqualEqual">>,
       <<0, "Eof">> >>

\* The arms `b'{' => Token::LSquirly, ...` that fall through to the trailing
\* self.read_char().
SingleByte ==
    << <<b("{"), "LSquirly">>,
       <<b("}"), "RSquirly">>,
       <<b("("), "Lparen">>,
       <<b(")"), "Rparen">>,
       <<b(","), "Comma">>,
       <<b(";"), "Semicolon">>,
       <<b("="), "Equal">>,
       <<0, "Eof">> >>

\* pub fn next_token(&mut self) -> Result<Token>
next_token(l0) ==
    LET l == skip_whitespace(l0) IN
    IF \E i \in 1..Len(SingleByte) : SingleByte[i][1] = l.ch
    THEN LET i == CHOOSE i \in 1..Len(SingleByte) : SingleByte[i][1] = l.ch
         IN  Returns(read_char(l), Tok(SingleByte[i][2]))
    ELSE IF l.ch = b("+")
    THEN LET r == read_match_any(l, {b("+"), b("=")})
         IN  Returns(r.lex, match_plus(r.str))
    ELSE IF is_ascii_alphabetic(l.ch) \/ l.ch = b("_")
    THEN LET r == read_ident(l)
         IN  Returns(r.lex, match_ident(r.str))
    ELSE IF is_ascii_digit(l.ch)
    THEN LET r == read_int(l)
         IN  Returns(r.lex, Token_Int(r.str))
    ELSE IF l.ch = b(".")
    THEN LET r == read_match_any(l, {b("."), b("=")})
         IN  IF \E i \in 1..Len(PeriodTable) : PeriodTable[i][1] = r.str
             THEN Returns(r.lex,
                     Tok(PeriodTable[CHOOSE i \in 1..Len(PeriodTable) :
                                         PeriodTable[i][1] = r.str][2]))
             ELSE Todo(r.lex)
    ELSE IF l.ch = b(":")
    THEN LET r == read_match(l, b(":"))
         IN  Returns(r.lex, match_colon(r.str))
    ELSE IF l.ch = b("-")
    THEN LET r == read_match_any(l, {b("-"), b("="), b(">")})
         IN  Returns(r.lex, match_minus(r.str))
    ELSE Todo(l)

\* fn new(input: String) -> Lexer
new(s) ==
    read_char([position |-> 0, read_position |-> 0, ch |-> 0,
               input |-> into_bytes(s), fault |-> FALSE])

---------------------------------------------------------------------------
(* The inputs.                                                             *)

MaxLen == 3
MaxOverrun == 2

RECURSIVE StringsUpTo(_, _)
StringsUpTo(chars, n) ==
    IF n = 0 THEN {<<>>}
    ELSE LET shorter == StringsUpTo(chars, n - 1)
         IN  shorter \cup {Append(s, c) : s \in shorter, c \in chars}

OperatorChars == {b("."), b("="), b("-"), b(">"), b("+"), b(":")}
WordChars == {b("f"), b("n"), b("x"), b("_"), b("8"), b("i"), SP}
\* 233 is U+00E9, two bytes (0xC3 0xA9) in the buffer.
MixedChars == {SP, LF, b("a"), b("5"), b(";"), b("!"), b("."), 0, 233}

Keywords == {KeywordTable[i][1] : i \in 1..(Len(KeywordTable) - 1)}

\* let input = "=+(){},;";  (test get_next_token)
TestTokenInput == lit(<<"=","+","(",")","{","}",",",";">>)

\* The first line of the input of test get_next_complete.
LetFive == lit(<<"l","e","t"," ","f","i","v","e"," ","="," ","5",";">>)

Examples ==
    { TestTokenInput, LetFive,
      lit(<<"1","2","3","4","5">>),
      lit(<<"0","0","7">>),
      lit(<<"l","e","t","_">>),
      lit(<<"u","3","2","x">>),
      lit(<<".",".",".",".">>),
      lit(<<".",".","=","=">>),
      lit(<<"x"," ","+","="," ","1">>),
      lit(<<"!","=">>),
      lit(<<"&","&">>),
      lit(<<"|","|">>),
      lit(<<"x",";">>) }

Inputs ==
    StringsUpTo(OperatorChars, MaxLen)
        \cup StringsUpTo(WordChars, MaxLen)
        \cup StringsUpTo(MixedChars, MaxLen)
        \cup Keywords
        \cup {kw \o <<c>> : kw \in Keywords, c \in WordChars}
        \cup {<<c>> \o kw : kw \in Keywords, c \in WordChars}
        \cup Examples

---------------------------------------------------------------------------
(* The state machine: a Lexer built by Lexer::new, then next_token calls.  *)
(* out is the list of tokens the caller has received so far; panicked says *)
(* that a call reached todo!() and the thread unwound.                     *)

self == [position |-> position, read_position |-> read_position,
         ch |-> ch, input |-> input, fault |-> FALSE]

Init ==
    \E s \in Inputs :
        LET lex == new(s) IN
        /\ input = lex.input
        /\ position = lex.position
        /\ read_position = lex.read_position
        /\ ch = lex.ch
        /\ out = <<>>
        /\ panicked = lex.fault

\* The caller may go on calling after Eof; the model stops it MaxOverrun
\* bytes past the end, where position would otherwise grow for ever.
CanCall == ~panicked /\ position < Len(input) + MaxOverrun

\* A call that returns Ok(tok).
NextToken ==
    /\ CanCall
    /\ LET r == next_token(self) IN
       /\ ~r.panic
       /\ position' = r.lex.position
       /\ read_position' = r.lex.read_position
       /\ ch' = r.lex.ch
       /\ out' = Append(out, r.tok)
       /\ UNCHANGED <<input, panicked>>

\* A call that reaches todo!(): the cursor stays where the call left it and
\* nothing is returned.
NextTokenPanics ==
    /\ CanCall
    /\ LET r == next_token(self) IN
       /\ r.panic
       /\ position' = r.lex.position
       /\ read_position' = r.lex.read_position
       /\ ch' = r.lex.ch
       /\ panicked' = TRUE
       /\ UNCHANGED <<input, out>>

Next == NextToken \/ NextTokenPanics

Spec == Init /\ [][Next]_vars

---------------------------------------------------------------------------
(* What the claims speak of, read off the buffer rather than the cursor.   *)

Whitespace == {SP, HT, LF, FF, CR}

\* The byte at 0-based index i, or the sentinel 0 past the end.
ByteAt(bytes, i) == IF i < Len(bytes) THEN bytes[i + 1] ELSE 0

\* The end (0-based, exclusive) of the maximal run of bytes of `set` that
\* starts at index i.
RECURSIVE RunEnd(_, _, _)
RunEnd(bytes, i, set) ==
    IF i < Len(bytes) /\ bytes[i + 1] \in set
    THEN RunEnd(bytes, i + 1, set)
    ELSE i

\* Where the next call's token starts: the first byte at or after the cursor
\* that is not whitespace.
TokenStart == RunEnd(input, position, Whitespace)

\* The byte the next call dispatches on.
Current == ByteAt(input, TokenStart)

\* The maximal run of bytes of `set` at TokenStart.
Run(set) == SubSeq(input, TokenStart + 1, RunEnd(input, TokenStart, set))

Last(seq) == seq[Len(seq)]

\* This step is a call that returned a token.
Returned == out' # out

\* This step is a call, returning or not.
Called == out' # out \/ panicked' # panicked

EofReturned == \E i \in 1..Len(out) : out[i].kind = "Eof"

Letters == {c \in 0..255 : is_ascii_alphabetic(c)}
Digits == {c \in 0..255 : is_ascii_digit(c)}

\* The bytes some arm of next_token's match names.
Dispatched ==
    {b("{"), b("}"), b("("), b(")"), b(","), b(";"), b("+"), b("="),
     b("_"), 0, b("."), b(":"), b("-")} \cup Letters \cup Digits

---------------------------------------------------------------------------
(* C1..C5: totality, the iteration contract, progress, and the two         *)
(* placeholders.                                                           *)

\* C1: no call aborts, and as long as Eof has not been returned the next call
\* returns a token (so that, by C3, Eof is returned in the end).
C1_Totality == ~panicked /\ (EofReturned \/ ENABLED NextToken)

\* C2: the tokens returned end with Eof and nothing but Eof follows it: once
\* a call has returned Eof, no later call returns a token other than Eof.
C2_EofIsFinal ==
    [][(EofReturned /\ Returned) => Last(out').kind = "Eof"]_vars

\* C3: a call that returns a token other than Eof leaves position strictly
\* greater than it was.
C3_Progress ==
    [][(Returned /\ Last(out').kind # "Eof") => position' > position]_vars

\* C3's case: a second or later call has returned a token other than Eof.
C3_Witness == Len(out) >= 2 /\ Last(out).kind # "Eof" /\ position > 1

\* C4: on a byte that no arm names, the call returns Illegal and the cursor is
\* one byte past it.
C4_UnrecognizedIsIllegal ==
    [][(Called /\ Current \notin Dispatched) =>
          /\ Returned
          /\ Last(out') = Tok("Illegal")
          /\ position' = TokenStart + 1]_vars

LegalPeriodRuns == {PeriodTable[i][1] : i \in 1..Len(PeriodTable)}

\* C5: on a '.' whose run of '.' and '=' is none of the four legal runs, the
\* call returns Illegal.
C5_UnmatchedPeriodIsIllegal ==
    [][(Called /\ Current = b(".") /\ Run({b("."), b("=")}) \notin LegalPeriodRuns) =>
          (Returned /\ Last(out') = Tok("Illegal"))]_vars

---------------------------------------------------------------------------
(* C6..C8: the runs of '+' and '-', of identifier bytes and of digits.     *)

MinusSet == {b("-"), b("="), b(">")}
PlusSet == {b("+"), b("=")}

\* C6: on '-' the call consumes the maximal run of '-', '=', '>' and returns
\* MinusEqual for "-=", Arrow for "->" and Minus for every other run; on '+'
\* it consumes the maximal run of '+', '=' and returns PlusEqual for "+=" and
\* Plus for every other run; the cursor is then on the first byte after the
\* run.
C6_PlusMinusMunch ==
    [][Called =>
        /\ Current = b("-") =>
              /\ Returned
              /\ Last(out') =
                    Tok(CASE Run(MinusSet) = <<b("-"), b("=")>> -> "MinusEqual"
                          [] Run(MinusSet) = <<b("-"), b(">")>> -> "Arrow"
                          [] OTHER -> "Minus")
              /\ position' = RunEnd(input, TokenStart, MinusSet)
              /\ ch' = ByteAt(input, position')
        /\ Current = b("+") =>
              /\ Returned
              /\ Last(out') =
                    Tok(IF Run(PlusSet) = <<b("+"), b("=")>> THEN "PlusEqual"
                        ELSE "Plus")
              /\ position' = RunEnd(input, TokenStart, PlusSet)
              /\ ch' = ByteAt(input, position')]_vars

\* C6's case: the run "->=" has been returned as one Minus.
C6_Witness ==
    /\ input = <<b("-"), b(">"), b("=")>>
    /\ out = <<Tok("Minus")>>
    /\ position = 3

IdentBytes == Letters \cup Digits \cup {b("_")}

\* C7: on a letter or underscore the call consumes the maximal run of
\* alphanumeric-or-underscore bytes; it returns the keyword token of the run
\* when the whole run is a reserved word and Ident carrying the run otherwise.
C7_KeywordBoundary ==
    [][(Called /\ Current \in Letters \cup {b("_")}) =>
        LET run == Run(IdentBytes) IN
        /\ Returned
        /\ position' = RunEnd(input, TokenStart, IdentBytes)
        /\ \A i \in 1..Len(KeywordTable) :
              run = KeywordTable[i][1] => Last(out') = Tok(KeywordTable[i][2])
        /\ run \notin Keywords => Last(out') = Token_Ident(run)]_vars

\* C7's case: a reserved word followed directly by an identifier byte has
\* been returned as one Ident.
C7_Witness ==
    /\ out # <<>>
    /\ Last(out).kind = "Ident"
    /\ \E kw \in Keywords :
          /\ Len(Last(out).text) > Len(kw)
          /\ SubSeq(Last(out).text, 1, Len(kw)) = kw

\* C8: on a digit the call returns Int carrying exactly the maximal run of
\* digits, and the cursor is on the first byte that is no digit.
C8_IntFidelity ==
    [][(Called /\ Current \in Digits) =>
        /\ Returned
        /\ Last(out') = Token_Int(Run(Digits))
        /\ position' = RunEnd(input, TokenStart, Digits)
        /\ ch' = ByteAt(input, position')
        /\ ch' \notin Digits]_vars

\* C8's case: "12345" has been returned whole.
C8_Witness ==
    /\ input = lit(<<"1","2","3","4","5">>)
    /\ out = <<Token_Int(lit(<<"1","2","3","4","5">>))>>
    /\ position = 5

---------------------------------------------------------------------------
(* C9, C10: whole token sequences.                                         *)

\* The tokens a caller receives from lexer l by calling next_token until it
\* returns Eof, and whether a call aborted before that.
RECURSIVE tokens_until_eof(_, _)
tokens_until_eof(l, acc) ==
    LET r == next_token(l) IN
    IF r.panic THEN [toks |-> acc, panic |-> TRUE]
    ELSE IF r.tok.kind = "Eof" THEN [toks |-> Append(acc, r.tok), panic |-> FALSE]
    ELSE tokens_until_eof(r.lex, Append(acc, r.tok))

\* The tokens of `seq` up to and including its first Eof.
UpToEof(seq) ==
    IF \E i \in 1..Len(seq) : seq[i].kind = "Eof"
    THEN SubSeq(seq, 1, CHOOSE i \in 1..Len(seq) :
                           /\ seq[i].kind = "Eof"
                           /\ \A j \in 1..(i - 1) : seq[j].kind # "Eof")
    ELSE seq

\* The buffers that differ from `bytes` in one whitespace byte: one of its
\* whitespace bytes is of another kind, one more whitespace byte stands next
\* to one of them, or one more stands before the first byte or after the last.
\* Every two buffers that differ only in their whitespace runs, each having
\* whitespace where the other has, are linked by a chain of such steps.
WsVariants(bytes) ==
    LET n == Len(bytes)
        at == {i \in 1..n : bytes[i] \in Whitespace}
    IN  {[bytes EXCEPT ![i] = w] : i \in at, w \in Whitespace}
           \cup {SubSeq(bytes, 1, i) \o <<w>> \o SubSeq(bytes, i + 1, n) :
                     i \in at, w \in Whitespace}
           \cup {<<w>> \o bytes : w \in Whitespace}
           \cup {bytes \o <<w>> : w \in Whitespace}

\* The scan of `input` has just ended: with the first Eof, or with an abort
\* before any Eof.
JustEnded ==
    \/ panicked /\ ~EofReturned
    \/ ~panicked /\ out # <<>> /\ Last(out).kind = "Eof" /\ UpToEof(out) = out

\* C9: a buffer that differs from the input only in its whitespace runs gives
\* the same tokens up to the first Eof, and leading and trailing whitespace
\* gives no token.
C9_WhitespaceInsensitive ==
    JustEnded =>
        \A v \in WsVariants(input) :
            LET r == tokens_until_eof(new(from_utf8_lossy(v)), <<>>) IN
            /\ r.toks = out
            /\ r.panic = panicked

\* C9's case: the scan of "a\n5" has ended with Ident, Int, Eof; its variants
\* have other whitespace between the two tokens.
C9_Witness ==
    /\ input = <<b("a"), LF, b("5")>>
    /\ out = <<Token_Ident(<<b("a")>>), Token_Int(<<b("5")>>), Tok("Eof")>>

LetFiveTokens ==
    << Tok("Let"), Token_Ident(lit(<<"f","i","v","e">>)), Tok("Equal"),
       Token_Int(lit(<<"5">>)), Tok("Semicolon"), Tok("Eof") >>

\* C10: every token starts at the first byte after the whitespace that
\* follows the token before it and ends where the next one is looked for, so
\* that only whitespace lies between two tokens; Ident and Int carry the
\* bytes between their start and their end; and "let five = 5;" gives
\* Let, Ident("five"), Equal, Int("5"), Semicolon, Eof.
C10_SourceOrder ==
    /\ [](input = LetFive =>
            /\ ~panicked
            /\ \A i \in 1..Len(out) :
                  out[i] = IF i <= Len(LetFiveTokens) THEN LetFiveTokens[i]
                           ELSE Tok("Eof"))
    /\ [][Returned =>
            /\ position' > TokenStart
            /\ position' <= Len(input) \/ Last(out').kind = "Eof"
            /\ Last(out').kind \in {"Ident", "Int"} =>
                  Last(out').text = SubSeq(input, TokenStart + 1, position')]_vars

\* C10's case: the scan of "let five = 5;" has returned its Eof.
C10_Witness ==
    /\ input = LetFive
    /\ Len(out) = Len(LetFiveTokens)
    /\ Last(out).kind = "Eof"

---------------------------------------------------------------------------
(* C11..C13: the cursor.                                                   *)

\* C11: position <= input.length and read_position <= input.length + 1, in
\* every state.
C11_CursorBounds ==
    /\ position <= Len(input)
    /\ read_position <= Len(input) + 1

\* C12: a call that finds the sentinel 0 under the cursor returns Eof and
\* leaves position and read_position as they were.
C12_EofDoesNotAdvance ==
    [][(Called /\ Current = 0) =>
          /\ Returned
          /\ Last(out') = Tok("Eof")
          /\ position' = position
          /\ read_position' = read_position]_vars

\* C13: read_position = position + 1, and ch is the byte at position, or 0
\* when position is at or past the end.
C13_CursorCoupling ==
    /\ read_position = position + 1
    /\ ch = ByteAt(input, position)

\* C13's case: some calls have moved the cursor and it is inside the buffer,
\* on a byte that is not 0.
C13_Witness ==
    /\ Len(out) >= 2
    /\ position < Len(input)
    /\ ch # 0

---------------------------------------------------------------------------
(* C14..C18, C20: the tokens of the operator runs and of the single bytes. *)

PeriodSet == {b("."), b("=")}
ColonSet == {b(":")}

\* The legal runs of the four leaders, each with the bytes its run is made of
\* and its token.
LegalRuns ==
    << <<PeriodSet, lit(<<".">>), "Period">>,
       <<PeriodSet, lit(<<".",".">>), "Range">>,
       <<PeriodSet, lit(<<".",".","=">>), "RangeInclusive">>,
       <<PeriodSet, lit(<<".",".",".">>), "DefaultFields">>,
       <<ColonSet, lit(<<":">>), "Colon">>,
       <<ColonSet, lit(<<":",":">>), "DoubleColon">>,
       <<PlusSet, lit(<<"+">>), "Plus">>,
       <<PlusSet, lit(<<"+","=">>), "PlusEqual">>,
       <<MinusSet, lit(<<"-">>), "Minus">>,
       <<MinusSet, lit(<<"-","=">>), "MinusEqual">>,
       <<MinusSet, lit(<<"-",">">>), "Arrow">> >>

\* C14: when the maximal operator run at the cursor is one of the legal runs,
\* the call returns that run's token and the cursor ends on the first byte
\* after the run.
C14_LegalRunTable ==
    [][Called =>
        \A i \in 1..Len(LegalRuns) :
            LET set == LegalRuns[i][1]
                run == LegalRuns[i][2]
            IN  (Current = run[1] /\ Run(set) = run) =>
                   /\ Returned
                   /\ Last(out') = Tok(LegalRuns[i][3])
                   /\ position' = TokenStart + Len(run)
                   /\ ch' = ByteAt(input, position')]_vars

\* C14's case: the run "..=" has been returned as RangeInclusive.
C14_Witness ==
    /\ input = lit(<<".",".","=">>)
    /\ out = <<Tok("RangeInclusive")>>
    /\ position = 3

SingleByteTokens ==
    << <<b("{"), "LSquirly">>, <<b("}"), "RSquirly">>, <<b("("), "Lparen">>,
       <<b(")"), "Rparen">>, <<b(","), "Comma">>, <<b(";"), "Semicolon">>,
       <<b("="), "Equal">> >>

\* C15: on one of '{', '}', '(', ')', ',', ';', '=' the call returns that
\* byte's token and position is one byte past it, whatever follows.
C15_SingleByteTokens ==
    [][Called =>
        \A i \in 1..Len(SingleByteTokens) :
            Current = SingleByteTokens[i][1] =>
               /\ Returned
               /\ Last(out') = Tok(SingleByteTokens[i][2])
               /\ position' = TokenStart + 1]_vars

\* C15's case: every such byte has been scanned in "=+(){},;", one token a
\* byte (the '+' as Plus).
C15_Witness ==
    /\ input = TestTokenInput
    /\ out = << Tok("Equal"), Tok("Plus"), Tok("Lparen"), Tok("Rparen"),
                Tok("LSquirly"), Tok("RSquirly"), Tok("Comma"), Tok("Semicolon") >>

\* The bytes a multi-byte token that starts with byte c is made of.
RunSetOf(c) ==
    CASE c \in Letters \cup {b("_")} -> IdentBytes
      [] c \in Digits -> Digits
      [] c = b("+") -> PlusSet
      [] c = b("-") -> MinusSet
      [] c = b(".") -> PeriodSet
      [] c = b(":") -> ColonSet
      [] OTHER -> {}

\* C16: after an identifier, keyword, integer or operator-run token has been
\* returned, position is the index of the first byte after the run and ch is
\* that byte.
C16_NoExtraAdvance ==
    [][(Returned /\ RunSetOf(Current) # {}) =>
          /\ position' = RunEnd(input, TokenStart, RunSetOf(Current))
          /\ ch' = ByteAt(input, position')]_vars

\* C16's case: "x;" has given Ident("x") and then Semicolon.
C16_Witness ==
    /\ input = lit(<<"x",";">>)
    /\ out = <<Token_Ident(lit(<<"x">>)), Tok("Semicolon")>>

Compound ==
    {"Bang", "Ampersand", "Pipe", "EqualEqual", "BangEqual",
     "AmpersandAmpersand", "PipePipe"}

C18_ArrowOnlyFromMinus ==
    [][(Returned /\ Last(out').kind = "Arrow") =>
          /\ Current = b("-")
          /\ Run(MinusSet) = lit(<<"-",">">>)]_vars

\* C18's case: "->" has been returned as Arrow.
C18_Witness ==
    /\ input = lit(<<"-",">">>)
    /\ out = <<Tok("Arrow")>>

\* C20: on ':' the call consumes the whole run of ':' and returns DoubleColon
\* when the run has two colons and Colon for every other length.
C20_ColonRuns ==
    [][(Called /\ Current = b(":")) =>
          /\ Returned
          /\ Last(out') = Tok(IF Len(Run(ColonSet)) = 2 THEN "DoubleColon"
                              ELSE "Colon")
          /\ position' = RunEnd(input, TokenStart, ColonSet)]_vars

\* C20's case: ":::" has been returned as one Colon.
C20_Witness ==
    /\ input = lit(<<":",":",":">>)
    /\ out = <<Tok("Colon")>>
    /\ position = 3

---------------------------------------------------------------------------
(* C19: the accesses to the buffer.                                        *)

\* C19: Lexer::new on this input has made no access outside the buffer, and
\* neither does the next call, whatever calls came before (calls after Eof
\* among them): read_char indexes below input.length and every slice
\* input[pos..position] has pos <= position <= input.length.
C19_InBounds ==
    /\ ~new(from_utf8_lossy(input)).fault
    /\ CanCall => ~next_token(self).lex.fault

\* C19's case: a call has taken a slice for an identifier that ends the buffer
\* and calls have been made after Eof, the cursor now past the end.
C19_Witness ==
    /\ Len(out) >= 3
    /\ out[1].kind = "Ident"
    /\ out[2].kind = "Eof"
    /\ position > Len(input)

=============================================================================
